---- MODULE Spec2Model ----
(***************************************************************************)
(* State-machine model of the AI-ATC simulation session (AIATCEnv) and of  *)
(* the aircraft it owns (Airplane).                                        *)
(*                                                                         *)
(* Units of the model (the source works in floats):                        *)
(*   position   1/3600 NM         (NM(n) converts; one second at one knot  *)
(*                                 is one unit)                            *)
(*   altitude   1/6 ft            (FT(n) converts; one second at any       *)
(*                                 vertical speed that is a multiple of    *)
(*                                 10 ft/min is a whole number of units)   *)
(*   heading    degrees, not wrapped (the source never wraps it)           *)
(*   turn rate  degrees / second                                           *)
(*   speed      knots,  accel knots / second, vertical speed ft / min      *)
(*   time       seconds                                                    *)
(***************************************************************************)
EXTENDS Integers, Sequences, FiniteSets, TLC

VARIABLES
    cfg,               \* constructor arguments of the session (fixed after construction)
    curriculum_stage,  \* AIATCEnv.curriculum_stage
    sim_time,          \* AIATCEnv.sim_time
    step_count,        \* AIATCEnv.step_count
    planes,            \* AIATCEnv.planes, a sequence of Airplane records
    ret,               \* what the last call returned (or that it raised)
    episode,           \* ledger of what step() has returned since the last reset()
    manager,           \* a RunwayConfigurationManager (runway_config.py)
    ffs,               \* a VFRFlightFollowingService (vfr_support.py)
    curriculum         \* an AdaptiveCurriculum (curriculum.py)

\* the objects beside the session: the session never touches them
collaborators == <<manager, ffs, curriculum>>

vars == <<cfg, curriculum_stage, sim_time, step_count, planes, ret, episode, manager, ffs, curriculum>>

----------------------------------------------------------------------------
(* Unit conversions and numeric helpers *)

NM(n) == 3600 * n

FT(n) == 6 * n

Abs(v) == IF v < 0 THEN -v ELSE v

\* np.clip(v, lo, hi)
Clip(v, lo, hi) == IF v < lo THEN lo ELSE IF v > hi THEN hi ELSE v

\* division rounded to the nearest integer (b > 0)
RoundDiv(a, b) == (2 * a + b) \div (2 * b)

\* 1000 * cos(d degrees), d = 0 .. 90
CosTab ==
 << 1000, 1000, 999, 999, 998, 996, 995, 993, 990, 988, 985, 982, 978,
    974, 970, 966, 961, 956, 951, 946, 940, 934, 927, 921, 914, 906,
    899, 891, 883, 875, 866, 857, 848, 839, 829, 819, 809, 799, 788,
    777, 766, 755, 743, 731, 719, 707, 695, 682, 669, 656, 643, 629,
    616, 602, 588, 574, 559, 545, 530, 515, 500, 485, 469, 454, 438,
    423, 407, 391, 375, 358, 342, 326, 309, 292, 276, 259, 242, 225,
    208, 191, 174, 156, 139, 122, 105, 87, 70, 52, 35, 17, 0 >>

\* np.cos of a heading given in whole degrees, times 1000
Cos1000(deg) ==
    LET d == deg % 360
    IN  IF d <= 90 THEN CosTab[d + 1]
        ELSE IF d <= 180 THEN -CosTab[180 - d + 1]
        ELSE IF d <= 270 THEN -CosTab[d - 180 + 1]
        ELSE CosTab[360 - d + 1]

\* np.sin of a heading given in whole degrees, times 1000
Sin1000(deg) == Cos1000(deg - 90)

\* np.linalg.norm([dx, dy]) <= r, on position units (r below 2^15, so that
\* the squares fit 32-bit integers)
NormAtMost(dx, dy, r) ==
    /\ Abs(dx) <= r
    /\ Abs(dy) <= r
    /\ dx * dx + dy * dy <= r * r

\* np.linalg.norm([dx, dy]) < r
NormBelow(dx, dy, r) ==
    /\ Abs(dx) < r
    /\ Abs(dy) < r
    /\ dx * dx + dy * dy < r * r

\* the largest k in lo .. hi with k * k <= n
RECURSIVE ISqrtBetween(_, _, _)
ISqrtBetween(n, lo, hi) ==
    IF lo = hi THEN lo
    ELSE LET mid == (lo + hi + 1) \div 2
         IN  IF mid * mid <= n THEN ISqrtBetween(n, mid, hi)
             ELSE ISqrtBetween(n, lo, mid - 1)

\* np.linalg.norm([dx, dy]) in position units: exact along an axis, elsewhere
\* computed on offsets rounded to 1/120 NM (and cut off at 266 NM, beyond
\* max_distance), whose squares fit 32-bit integers
Norm(dx, dy) ==
    IF dx = 0 THEN Abs(dy)
    ELSE IF dy = 0 THEN Abs(dx)
    ELSE LET cx == Clip(RoundDiv(Abs(dx), 30), 0, 32000)
             cy == Clip(RoundDiv(Abs(dy), 30), 0, 32000)
         IN  30 * ISqrtBetween(cx * cx + cy * cy, 0, 46000)

\* min(a, b)
Min(a, b) == IF a < b THEN a ELSE b

\* a reward of n, in thousandths (the unit rewards are computed in)
RW(n) == 1000 * n

----------------------------------------------------------------------------
(* Program constants *)

MAX_VERT_SPEED == 3000

\* airplane.py: MAX_VERT_ACCEL, imported by the tests and read by no code
MAX_VERT_ACCEL == 1000

MIN_ALTITUDE == 0

MAX_ALTITUDE == 40000

APPROACH_SPEED == 150

\* airplane.py: TERMINAL_RADIUS, NM
TERMINAL_RADIUS == 20

\* np.inf in prev_dist_nm (a distance is never negative)
INF == -1

CLEARANCE_INTERVAL_S == 15

MAX_ACCEL == 5

constants_MAX_VERT_SPEED == 2500

INITIAL_SPACING_NM == 4

MAX_SIM_SECONDS == 3600

\* AIATCEnv.__init__: the attributes every session is built with
max_turn_rate == 3

initial_speed == 220

env_min_speed == 160

max_speed == 260

landing_radius == 2

min_separation == 3

max_distance == 250

default_dt == 1

default_max_episode_steps == 2000

\* separation_violated: vertical separation threshold, ft
VERTICAL_SEPARATION_FT == 2000

\* AIATCEnv.__init__: the airport sits at the origin, at altitude 0
airport_x == 0

airport_y == 0

\* AIATCEnv.__init__: rewards (instruction_cost 0.5 and silence_bonus 0.1 in
\* thousandths)
landing_reward == 100

all_landed_bonus == 200

collision_penalty == 200

instruction_cost == 500

silence_bonus == 100

\* step(): the reward added for an aircraft that was landed before the call
idle_reward == 1000

\* step(): the penalty of an aircraft beyond max_distance
discard_penalty == 50

----------------------------------------------------------------------------
(* Airplane *)

\* Airplane.__init__
Airplane(plane_id, x, y, heading_deg, speed_kts, min_speed_kts, max_speed_kts, max_turn_rate_deg, init_altitude, is_vfr) ==
    [ id |-> plane_id,
      last_clearance_time |-> 0,
      is_vfr |-> is_vfr,
      x |-> x,
      y |-> y,
      heading |-> heading_deg,
      speed |-> speed_kts,
      altitude |-> init_altitude,
      vert_speed |-> 0,
      current_turn_rate |-> 0,
      accel |-> 0,
      target_heading |-> heading_deg,
      target_speed |-> speed_kts,
      target_altitude |-> init_altitude,
      min_speed |-> min_speed_kts,
      max_speed |-> max_speed_kts,
      max_turn_rate |-> max_turn_rate_deg,
      prev_dist_nm |-> INF,
      landed |-> FALSE ]

\* apply_atc_clearance storing the commanded turn rate as it comes
apply_atc_clearance_unclipped(p, turn_rate_cmd, accel_cmd, vert_speed_cmd) ==
    [p EXCEPT
        !.current_turn_rate = turn_rate_cmd,
        !.vert_speed = Clip(vert_speed_cmd, -MAX_VERT_SPEED, MAX_VERT_SPEED),
        !.accel = Clip(accel_cmd, -MAX_ACCEL, MAX_ACCEL)]

\* Airplane.apply_atc_clearance: the aircraft after the call
apply_atc_clearance(p, turn_rate_cmd, accel_cmd, vert_speed_cmd) ==
    [p EXCEPT
        !.current_turn_rate = Clip(turn_rate_cmd, -p.max_turn_rate, p.max_turn_rate),
        !.vert_speed = Clip(vert_speed_cmd, -MAX_VERT_SPEED, MAX_VERT_SPEED),
        !.accel = Clip(accel_cmd, -MAX_ACCEL, MAX_ACCEL)]

\* Airplane.apply_atc_clearance: the value it returns
apply_atc_clearance_count(p, turn_rate_cmd, accel_cmd, vert_speed_cmd) == 1

\* speed integration without the clip to [min_speed, max_speed]
StepSpeed_unclipped(p, dt) == p.speed + p.accel * dt

\* Airplane.step: speed integration
StepSpeed(p, dt) == Clip(p.speed + p.accel * dt, p.min_speed, p.max_speed)

\* altitude integration without the clip to [MIN_ALTITUDE, MAX_ALTITUDE]
StepAltitude_unclipped(p, dt) == p.altitude + ((p.vert_speed * dt) \div 10)

\* Airplane.step: altitude integration, (vert_speed / 60) * dt ft
StepAltitude(p, dt) ==
    Clip(p.altitude + ((p.vert_speed * dt) \div 10), FT(MIN_ALTITUDE), FT(MAX_ALTITUDE))

\* Airplane.step: distance travelled along one axis, (speed / 3600) * dt NM
\* times the direction component
Travel(speed, dt, dir1000) == RoundDiv(speed * dt * dir1000, 1000)

\* Airplane.step: the integration of one time step
Integrate(p, dt) ==
    LET speed == StepSpeed(p, dt)
        heading == p.heading + p.current_turn_rate * dt
    IN  [p EXCEPT
           !.speed = speed,
           !.heading = heading,
           !.altitude = StepAltitude(p, dt),
           !.x = p.x + Travel(speed, dt, Cos1000(heading)),
           !.y = p.y + Travel(speed, dt, Sin1000(heading))]

\* Airplane.step without the early return for a landed aircraft
Airplane_step_unguarded(p, dt) == Integrate(p, dt)

\* Airplane.step
Airplane_step(p, dt) == IF p.landed THEN p ELSE Integrate(p, dt)

\* the landing criteria with the IFR thresholds for every aircraft
LandingCriteria_ifr_thresholds(p, ax, ay, landing_radius_nm) ==
    /\ NormAtMost(p.x - ax, p.y - ay, NM(landing_radius_nm))
    /\ p.altitude <= FT(1500)
    /\ Abs(p.vert_speed) <= 700
    /\ Abs(p.current_turn_rate) <= 3
    /\ p.speed <= APPROACH_SPEED

\* Airplane.check_landing: the five landing criteria
LandingCriteria(p, ax, ay, landing_radius_nm) ==
    LET altitude_threshold == IF p.is_vfr THEN 1000 ELSE 1500
        vs_threshold == IF p.is_vfr THEN 800 ELSE 700
        turn_rate_threshold == IF p.is_vfr THEN 5 ELSE 3
        approach_speed == IF p.is_vfr THEN APPROACH_SPEED + 10 ELSE APPROACH_SPEED
    IN  /\ NormAtMost(p.x - ax, p.y - ay, NM(landing_radius_nm))
        /\ p.altitude <= FT(altitude_threshold)
        /\ Abs(p.vert_speed) <= vs_threshold
        /\ Abs(p.current_turn_rate) <= turn_rate_threshold
        /\ p.speed <= approach_speed

\* check_landing without the early return for an aircraft already landed
check_landing_again(p, ax, ay, landing_radius_nm) ==
    LandingCriteria(p, ax, ay, landing_radius_nm)

\* Airplane.check_landing: the value it returns
check_landing(p, ax, ay, landing_radius_nm) ==
    IF p.landed THEN FALSE
    ELSE LandingCriteria(p, ax, ay, landing_radius_nm)

\* Airplane.check_landing: the aircraft after the call
check_landing_plane(p, ax, ay, landing_radius_nm) ==
    IF check_landing(p, ax, ay, landing_radius_nm)
    THEN [p EXCEPT !.landed = TRUE]
    ELSE p

----------------------------------------------------------------------------
(* Airplane.compute_pilot_reward, in thousandths. Every Airplane of the
   sources is built with is_arrival = True and a destination at altitude 0;
   heading_error_deg is set to 0.0 by __init__ and assigned nowhere else;
   dist_to_faf is np.inf from __init__ on, so the FAF bonus is never added. *)

heading_error_deg(p) == 0

\* the reward terms compute_pilot_reward puts behind a test of curriculum_stage
StageTerms ==
    { "too_high_near_runway", "heading_30", "heading_15", "terminal_distance",
      "speed_error", "vs_error", "turn_rate", "landing" }

\* the gating with the speed term included at stage 3 only
IncludedTerms_speed_at_3_only(stage) ==
    (IF stage < 2 THEN {"too_high_near_runway"} ELSE {})
      \cup (IF stage >= 0 THEN {"heading_30"} ELSE {})
      \cup (IF stage >= 2 THEN {"heading_15", "terminal_distance"} ELSE {})
      \cup (IF stage = 3 THEN {"speed_error"} ELSE {})
      \cup (IF stage >= 4 THEN {"vs_error", "turn_rate"} ELSE {})
      \cup (IF stage >= 5 THEN {"landing"} ELSE {})

\* compute_pilot_reward: the stage-gated terms evaluated at a stage
IncludedTerms(stage) ==
    (IF stage < 2 THEN {"too_high_near_runway"} ELSE {})
      \cup (IF stage >= 0 THEN {"heading_30"} ELSE {})
      \cup (IF stage >= 2 THEN {"heading_15", "terminal_distance"} ELSE {})
      \cup (IF stage >= 3 THEN {"speed_error"} ELSE {})
      \cup (IF stage >= 4 THEN {"vs_error", "turn_rate"} ELSE {})
      \cup (IF stage >= 5 THEN {"landing"} ELSE {})

\* compute_pilot_reward: dist_nm, in position units
DistToDestination(p) == Norm(p.x - airport_x, p.y - airport_y)

\* compute_pilot_reward: what one stage-gated term adds
TermValue(term, p, dist) ==
    LET heading_error == Abs(heading_error_deg(p))
        speed_error == Abs(p.speed - p.target_speed)
        vs_error == Abs(p.vert_speed)
        turn_rate == Abs(p.current_turn_rate)
    IN  CASE term = "too_high_near_runway" ->
                 IF dist < NM(8) /\ p.altitude > FT(3000) THEN -RW(50) ELSE 0
          [] term = "heading_30" ->
                 1000 - Min(RoundDiv(1000 * heading_error, 30), 1000)
          [] term = "heading_15" ->
                 500 - Min(RoundDiv(500 * heading_error, 15), 500)
          [] term = "terminal_distance" ->
                 IF dist < NM(TERMINAL_RADIUS)
                 THEN 1000 - RoundDiv(dist, 72) ELSE 0
          [] term = "speed_error" ->
                 500 - Min(RoundDiv(500 * speed_error, 40), 500)
          [] term = "vs_error" ->
                 300 - Min(RoundDiv(300 * vs_error, 500), 300)
          [] term = "turn_rate" ->
                 300 - Min(100 * turn_rate, 300)
          [] term = "landing" ->
                 (IF p.landed THEN RW(50) ELSE 0)
                   + (IF dist < NM(2 * TERMINAL_RADIUS) /\ p.altitude < FT(2000)
                      THEN RW(5) ELSE 0)
                   + (IF dist < NM(2 * TERMINAL_RADIUS) /\ p.speed < APPROACH_SPEED
                      THEN RW(5) ELSE 0)

\* compute_pilot_reward: the sum of the stage-gated terms
StageShaping(p, stage, dist) ==
    LET add(term) == IF term \in IncludedTerms(stage) THEN TermValue(term, p, dist) ELSE 0
    IN  add("too_high_near_runway") + add("heading_30") + add("heading_15")
          + add("terminal_distance") + add("speed_error") + add("vs_error")
          + add("turn_rate") + add("landing")

\* compute_pilot_reward: glide path, vertical speed and progress terms
BaseShaping(p, dist) ==
    LET ideal_alt == RoundDiv(dist * 53, 100)
        above_glide == p.altitude - ideal_alt
        progress == IF p.prev_dist_nm = INF THEN 0 ELSE p.prev_dist_nm - dist
    IN  (IF above_glide > 0 THEN -Clip(RoundDiv(above_glide, 9), 0, 4000) ELSE 0)
          - Clip(RoundDiv(Abs(p.vert_speed), 3), 0, 1000)
          + (IF p.vert_speed > 0 THEN -10 * p.vert_speed ELSE 0)
          + (IF p.vert_speed < -300 THEN 200 ELSE 0)
          + RoundDiv(25 * progress, 18)

\* compute_pilot_reward: stage_scale, in thousandths
stage_scale(stage) ==
    IF stage \in {0, 1, 2} THEN 1000
    ELSE IF stage = 3 THEN 700
    ELSE IF stage = 4 THEN 500
    ELSE 300

\* compute_pilot_reward returning the scaled sum without the final clip
compute_pilot_reward_unclipped(p, stage) ==
    LET dist == DistToDestination(p)
    IN  RoundDiv((BaseShaping(p, dist) + StageShaping(p, stage, dist)) * stage_scale(stage),
                 1000) - 10

\* Airplane.compute_pilot_reward: the value it returns
compute_pilot_reward(p, stage) ==
    LET dist == DistToDestination(p)
    IN  Clip(RoundDiv((BaseShaping(p, dist) + StageShaping(p, stage, dist))
                          * stage_scale(stage), 1000) - 10,
             -RW(10), RW(10))

\* Airplane.compute_pilot_reward: the aircraft after the call
compute_pilot_reward_plane(p, stage) ==
    [p EXCEPT !.prev_dist_nm = DistToDestination(p)]

----------------------------------------------------------------------------
(* Bounds and input sets of the model *)

\* step() calls explored per session before the model stops calling it
MaxSteps == 3

\* max_planes arguments the sessions are constructed with
PlaneCounts == 1 .. 2

\* dt arguments (seconds) the sessions are constructed with: the 60 s step the
\* physics tests integrate with, under which every command is taken (dt is at
\* least CLEARANCE_INTERVAL_S); scenario A below steps with the default, 1 s
DtChoices == {60}

\* max_episode_steps arguments the sessions are constructed with: small, so
\* that truncation happens within MaxSteps calls
EpisodeStepChoices == {2}

\* min_speed attribute of the session: the value AIATCEnv.__init__ sets and
\* the value the test fixture builds its Airplane with
MinSpeedChoices == {env_min_speed, 120}

\* arguments of set_curriculum_stage
StageChoices == {0, 2}

\* normalised commands <<turn_norm, accel_norm, vs_norm>> fed to step();
\* 2 and -2 lie outside the action space's [-1, 1], which step() never checks
Maintain == <<0, 0, 0>>

SlowDescend == <<0, -1, -1>>

Commands == {Maintain, SlowDescend, <<2, 1, 2>>}

\* np_random draws of reset() at stage 1: distance (NM) and intercept (degrees)
Stage1Draws == {[d |-> d, intercept |-> i, angle |-> 0, radius |-> 0, alt |-> 0] :
                    d \in {6, 8, 12}, i \in {20}}

\* np_random draws of reset() at stage 2 and above: angle (degrees),
\* radius (NM) and altitude (ft). The draws of two aircraft are independent,
\* so the same values may be drawn for both
Stage2Draws == {[d |-> 0, intercept |-> 0, angle |-> a[1], radius |-> a[2], alt |-> a[3]] :
                    a \in {<<90, 15, 4000>>}}

\* stage 0 draws nothing
NoDraw == [d |-> 0, intercept |-> 0, angle |-> 0, radius |-> 0, alt |-> 0]

----------------------------------------------------------------------------
(* runway_config.py: WindConditions, RunwayConfig and
   RunwayConfigurationManager. Wind components and suitability scores are in
   thousandths (of a knot, of a point); times are whole seconds. *)

\* Python's None where a runway id is expected
NoRunway == "None"

\* Python's None where a time is expected (times are never negative)
NoTime == -1

\* RunwayConfig: default max_headwind_kts
max_headwind_kts == 45

\* RunwayConfig: default max_crosswind_kts
max_crosswind_kts == 15

\* RunwayConfig: default max_tailwind_kts
max_tailwind_kts == 10

\* RunwayConfigurationManager.__init__: min_time_between_changes_seconds
min_time_between_changes_seconds == 300

\* evaluate_configuration_change: the score margin a better runway needs
score_threshold == 15

\* the RunwayConfig dataclass (length, width, surface and FAF distance are
\* never read by the manager)
RunwayConfig(runway_id, heading_deg, status) ==
    [ runway_id |-> runway_id,
      runway_heading_deg |-> heading_deg,
      max_headwind_kts |-> max_headwind_kts,
      max_crosswind_kts |-> max_crosswind_kts,
      max_tailwind_kts |-> max_tailwind_kts,
      status |-> status,
      closed_until_time |-> NoTime ]

\* the WindConditions dataclass
WindConditions(wind_speed_kts, wind_direction_deg) ==
    [ wind_speed_kts |-> wind_speed_kts, wind_direction_deg |-> wind_direction_deg ]

\* WindConditions.get_crosswind_component
get_crosswind_component(wind, heading_deg) ==
    wind.wind_speed_kts * Sin1000(heading_deg - wind.wind_direction_deg)

\* WindConditions.get_headwind_component
get_headwind_component(wind, heading_deg) ==
    wind.wind_speed_kts * Cos1000(heading_deg - wind.wind_direction_deg)

\* RunwayConfig.is_operational(current_time)
is_operational(rc, current_time) ==
    IF rc.status = "closed"
    THEN IF rc.closed_until_time # NoTime /\ current_time # NoTime
         THEN current_time >= rc.closed_until_time
         ELSE FALSE
    ELSE rc.status = "active"

\* RunwayConfig.can_accept_aircraft: the first component of what it returns
can_accept_aircraft(rc, wind) ==
    LET crosswind == Abs(get_crosswind_component(wind, rc.runway_heading_deg))
        headwind == get_headwind_component(wind, rc.runway_heading_deg)
    IN  /\ is_operational(rc, NoTime)
        /\ ~(crosswind > RW(rc.max_crosswind_kts))
        /\ ~(headwind > RW(rc.max_headwind_kts))
        /\ ~(headwind < -RW(rc.max_tailwind_kts))

\* max(a, b)
Max(a, b) == IF a > b THEN a ELSE b

\* RunwayConfig.get_suitability_score
get_suitability_score(rc, wind) ==
    LET crosswind == Abs(get_crosswind_component(wind, rc.runway_heading_deg))
        headwind == get_headwind_component(wind, rc.runway_heading_deg)
        crosswind_penalty == RoundDiv(crosswind * 20, rc.max_crosswind_kts)
        tailwind_penalty == RoundDiv((-headwind) * 30, rc.max_tailwind_kts)
        headwind_bonus == Min(RoundDiv(headwind, 10), RW(10))
    IN  IF ~is_operational(rc, NoTime) THEN -RW(100)
        ELSE IF ~can_accept_aircraft(rc, wind) THEN -RW(50)
        ELSE Max(RW(100) - Min(crosswind_penalty, RW(20))
                    + (IF headwind < 0 THEN -Min(tailwind_penalty, RW(30))
                       ELSE headwind_bonus),
                 0)

\* RunwayConfigurationManager.__init__ (runways is the dict, in insertion order)
RunwayConfigurationManager ==
    [ runways |-> << >>,
      active_runway |-> NoRunway,
      wind_conditions |-> WindConditions(0, 0),
      configuration_history |-> << >>,
      last_config_change_time |-> 0 ]

\* the position of runway_id in the dict, 0 when it is not a key
RunwayIndex(m, runway_id) ==
    LET at == {k \in 1 .. Len(m.runways) : m.runways[k].runway_id = runway_id}
    IN  IF at = {} THEN 0 ELSE CHOOSE k \in at : TRUE

\* RunwayConfigurationManager.add_runway
add_runway(m, rc) ==
    LET k == RunwayIndex(m, rc.runway_id)
    IN  [m EXCEPT
           !.runways = IF k = 0 THEN Append(m.runways, rc)
                       ELSE [m.runways EXCEPT ![k] = rc],
           !.active_runway = IF m.active_runway = NoRunway THEN rc.runway_id
                             ELSE m.active_runway]

\* RunwayConfigurationManager.get_active_runway: the position of the active
\* runway in the dict, 0 for None
get_active_runway(m) ==
    IF m.active_runway = NoRunway THEN 0 ELSE RunwayIndex(m, m.active_runway)

\* RunwayConfigurationManager.update_wind_conditions
update_wind_conditions(m, wind_speed_kts, wind_direction_deg) ==
    [m EXCEPT !.wind_conditions = WindConditions(wind_speed_kts, wind_direction_deg)]

\* get_best_runway: the loop over the dict from position k on, <<best_runway, best_score>>
RECURSIVE BestRunwayFrom(_, _, _)
BestRunwayFrom(m, k, best) ==
    IF k > Len(m.runways) THEN best
    ELSE LET rc == m.runways[k]
             score == get_suitability_score(rc, m.wind_conditions)
         IN  IF is_operational(rc, NoTime) /\ score > best[2]
             THEN BestRunwayFrom(m, k + 1, <<rc.runway_id, score>>)
             ELSE BestRunwayFrom(m, k + 1, best)

\* RunwayConfigurationManager.get_best_runway
get_best_runway(m) == BestRunwayFrom(m, 1, <<NoRunway, -RW(100)>>)[1]

\* what evaluate_configuration_change returns (reason is named by the return
\* statement that produced it)
Evaluation(should_change, new_runway, reason) ==
    [ should_change |-> should_change, new_runway |-> new_runway, reason |-> reason ]

\* evaluate_configuration_change from "current_runway = ..." on
evaluate_configuration_change_untimed(m, current_time) ==
    LET current == get_active_runway(m)
        best_runway == get_best_runway(m)
    IN  IF current = 0 \/ best_runway = NoRunway
        THEN Evaluation(FALSE, NoRunway, "No suitable runways available")
        ELSE IF best_runway = m.active_runway
        THEN Evaluation(FALSE, NoRunway, "Current runway is optimal")
        ELSE IF ~can_accept_aircraft(m.runways[current], m.wind_conditions)
        THEN Evaluation(TRUE, best_runway, "Current runway unsuitable")
        ELSE IF get_suitability_score(m.runways[RunwayIndex(m, best_runway)],
                                      m.wind_conditions)
                  > get_suitability_score(m.runways[current], m.wind_conditions)
                      + RW(score_threshold)
        THEN Evaluation(TRUE, best_runway, "Better runway available")
        ELSE Evaluation(FALSE, NoRunway, "Current runway acceptable")

\* RunwayConfigurationManager.evaluate_configuration_change
evaluate_configuration_change(m, current_time) ==
    IF current_time - m.last_config_change_time < min_time_between_changes_seconds
    THEN Evaluation(FALSE, NoRunway, "Minimum time between changes not met")
    ELSE evaluate_configuration_change_untimed(m, current_time)

\* change_runway_configuration: the first component of what it returns
change_runway_configuration_success(m, new_runway_id) ==
    /\ RunwayIndex(m, new_runway_id) # 0
    /\ is_operational(m.runways[RunwayIndex(m, new_runway_id)], NoTime)

\* RunwayConfigurationManager.change_runway_configuration: the manager after the call
change_runway_configuration(m, new_runway_id, current_time) ==
    IF ~change_runway_configuration_success(m, new_runway_id) THEN m
    ELSE [m EXCEPT
            !.active_runway = new_runway_id,
            !.last_config_change_time = current_time,
            !.configuration_history =
                IF m.active_runway # NoRunway
                THEN Append(m.configuration_history,
                            <<current_time, m.active_runway, new_runway_id>>)
                ELSE m.configuration_history]

\* RunwayConfigurationManager.close_runway
close_runway(m, runway_id, reopen_at_time) ==
    LET k == RunwayIndex(m, runway_id)
        closed == [m EXCEPT !.runways[k].status = "closed",
                            !.runways[k].closed_until_time = reopen_at_time]
        best_runway == get_best_runway(closed)
    IN  IF k = 0 THEN m
        ELSE IF m.active_runway = runway_id /\ best_runway # NoRunway
        THEN [closed EXCEPT !.active_runway = best_runway]
        ELSE closed

\* RunwayConfigurationManager.reopen_runway
reopen_runway(m, runway_id) ==
    LET k == RunwayIndex(m, runway_id)
    IN  IF k = 0 THEN m
        ELSE [m EXCEPT !.runways[k].status = "active",
                       !.runways[k].closed_until_time = NoTime]

----------------------------------------------------------------------------
(* vfr_support.py: VFRFlightFollowingService. active_sessions is the dict: a
   function whose domain is the set of plane ids that have a session. *)

\* VFRFlightFollowingService.__init__
VFRFlightFollowingService == [ active_sessions |-> << >> ]

\* plane_id in self.active_sessions
HasSession(s, plane_id) == plane_id \in DOMAIN s.active_sessions

\* request_flight_following: what it returns
request_flight_following_result(s, plane_id) == ~HasSession(s, plane_id)

\* VFRFlightFollowingService.request_flight_following: the service after the call
request_flight_following(s, plane_id, aircraft_type) ==
    IF HasSession(s, plane_id) THEN s
    ELSE [s EXCEPT !.active_sessions =
            [q \in DOMAIN s.active_sessions \cup {plane_id} |->
                IF q = plane_id
                THEN [ state |-> "active", type |-> aircraft_type,
                       requested_alt |-> NoTime, last_update |-> 0 ]
                ELSE s.active_sessions[q]]]

\* terminate_flight_following: what it returns
terminate_flight_following_result(s, plane_id) == HasSession(s, plane_id)

\* terminate_flight_following deleting the session instead of marking it
terminate_flight_following_deleting(s, plane_id) ==
    [s EXCEPT !.active_sessions =
        [q \in DOMAIN s.active_sessions \ {plane_id} |-> s.active_sessions[q]]]

\* VFRFlightFollowingService.terminate_flight_following: the service after the call
terminate_flight_following(s, plane_id) ==
    IF HasSession(s, plane_id)
    THEN [s EXCEPT !.active_sessions[plane_id].state = "terminated"]
    ELSE s

\* VFRFlightFollowingService.is_receiving_flight_following
is_receiving_flight_following(s, plane_id) ==
    HasSession(s, plane_id) /\ s.active_sessions[plane_id].state = "active"

----------------------------------------------------------------------------
(* curriculum.py: CurriculumStage, CurriculumMetrics and AdaptiveCurriculum.
   Rewards are whole numbers; mean_reward and the advancement threshold are in
   thousandths. Python's stage index 0 is position 1 of `stages`. *)

\* float('inf') of CurriculumMetrics.min_reward; max_reward starts at its negation
REWARD_INF == 1000000

\* CurriculumStage: default min_performance_threshold (0.5), in thousandths
min_performance_threshold == 500

\* CurriculumMetrics.update: the mean is taken over the last 100 episodes
mean_window == 100

\* the CurriculumStage dataclass (the fields should_advance_stage reads)
CurriculumStage(stage, timesteps, target_reward) ==
    [ stage |-> stage, timesteps |-> timesteps, target_reward |-> target_reward,
      min_performance_threshold |-> min_performance_threshold ]

\* AdaptiveCurriculum._create_default_stages
create_default_stages ==
    << CurriculumStage(0, 200000, 500), CurriculumStage(1, 250000, 600),
       CurriculumStage(2, 300000, 700), CurriculumStage(3, 400000, 900),
       CurriculumStage(4, 500000, 1200), CurriculumStage(5, 600000, 1500) >>

\* CurriculumMetrics(stage=stage)
CurriculumMetrics(stage) ==
    [ stage |-> stage, episode_count |-> 0, mean_reward |-> 0,
      max_reward |-> -REWARD_INF, min_reward |-> REWARD_INF,
      rewards_history |-> << >> ]

\* the sum of h[lo] .. h[hi]
RECURSIVE SumRange(_, _, _)
SumRange(h, lo, hi) == IF lo > hi THEN 0 ELSE h[hi] + SumRange(h, lo, hi - 1)

\* CurriculumMetrics.update
CurriculumMetrics_update(mt, episode_reward) ==
    LET history == Append(mt.rewards_history, episode_reward)
    IN  [mt EXCEPT
           !.episode_count = mt.episode_count + 1,
           !.rewards_history = history,
           !.mean_reward =
               RoundDiv(RW(SumRange(history, Max(1, Len(history) - mean_window + 1),
                                    Len(history))),
                        Min(Len(history), mean_window)),
           !.max_reward = Max(mt.max_reward, episode_reward),
           !.min_reward = Min(mt.min_reward, episode_reward)]

\* AdaptiveCurriculum.__init__ (metrics is the dict, keyed by stage number)
AdaptiveCurriculum ==
    [ stages |-> create_default_stages, current_stage_idx |-> 0, metrics |-> << >> ]

\* the current_stage property raises IndexError
current_stage_raises(c) == c.current_stage_idx >= Len(c.stages)

\* AdaptiveCurriculum.current_stage
current_stage(c) == c.stages[c.current_stage_idx + 1]

\* AdaptiveCurriculum.initialize_stage_metrics
initialize_stage_metrics(c) ==
    LET stage == current_stage(c).stage
    IN  [c EXCEPT !.metrics =
            [k \in DOMAIN c.metrics \cup {stage} |->
                IF k = stage THEN CurriculumMetrics(stage) ELSE c.metrics[k]]]

\* AdaptiveCurriculum.update_stage_metrics
update_stage_metrics(c, episode_reward) ==
    LET stage == current_stage(c).stage
        ready == IF stage \in DOMAIN c.metrics THEN c ELSE initialize_stage_metrics(c)
    IN  [ready EXCEPT !.metrics[stage] =
            CurriculumMetrics_update(ready.metrics[stage], episode_reward)]

\* should_advance_stage: max(50, stage.timesteps // 2000)
min_episodes(stage) == Max(50, stage.timesteps \div 2000)

\* should_advance_stage from "stage = self.current_stage" on
should_advance_stage_unguarded(c) ==
    LET stage == current_stage(c)
    IN  /\ stage.stage \in DOMAIN c.metrics
        /\ ~(c.metrics[stage.stage].episode_count < 10)
        /\ c.metrics[stage.stage].mean_reward * 100
               >= stage.target_reward * stage.min_performance_threshold
        /\ c.metrics[stage.stage].episode_count >= min_episodes(stage)

\* AdaptiveCurriculum.should_advance_stage (every default stage has a
\* target_reward, so the "target_reward is None" return is never taken)
should_advance_stage(c) ==
    /\ ~(c.current_stage_idx >= Len(c.stages) - 1)
    /\ should_advance_stage_unguarded(c)

\* AdaptiveCurriculum.advance_stage: the curriculum after the call; when the
\* new index is past the last stage, initialize_stage_metrics raises
\* IndexError after the index has been incremented
advance_stage(c) ==
    IF ~should_advance_stage(c) THEN c
    ELSE LET next == [c EXCEPT !.current_stage_idx = c.current_stage_idx + 1]
         IN  IF current_stage_raises(next) THEN next ELSE initialize_stage_metrics(next)

\* the objects beside the session as their constructors leave them
CollaboratorsInit ==
    /\ manager = RunwayConfigurationManager
    /\ ffs = VFRFlightFollowingService
    /\ curriculum = AdaptiveCurriculum

----------------------------------------------------------------------------
(* AIATCEnv *)

\* AIATCEnv.__init__: Runway(runway_heading_deg=270.0)
runway_heading_deg == 270

\* Runway.__init__: localizer_dir and outbound_dir, times 1000
localizer_dir == <<Cos1000(runway_heading_deg), Sin1000(runway_heading_deg)>>

outbound_dir == <<-localizer_dir[1], -localizer_dir[2]>>

\* np.arctan2 of a unit vector pointing along deg degrees: a value in (-180, 180]
Arctan2Deg(deg) ==
    LET d == deg % 360
    IN  IF d > 180 THEN d - 360 ELSE d

\* AIATCEnv.spawn_on_final
spawn_on_final(plane_id, distance_nm, altitude_ft, intercept_deg, min_speed) ==
    LET heading == Arctan2Deg(runway_heading_deg) + intercept_deg
        plane == Airplane(plane_id,
                          airport_x + RoundDiv(outbound_dir[1] * NM(distance_nm), 1000),
                          airport_y + RoundDiv(outbound_dir[2] * NM(distance_nm), 1000),
                          heading, initial_speed, min_speed, max_speed,
                          max_turn_rate, FT(altitude_ft), FALSE)
    IN  [plane EXCEPT
            !.target_heading = Arctan2Deg(runway_heading_deg),
            !.target_altitude = FT(0),
            !.target_speed = plane.speed]

\* separation_violated without the vertical exemption
separation_violated_horizontal(p1, p2) ==
    NormBelow(p1.x - p2.x, p1.y - p2.y, NM(min_separation))

\* AIATCEnv.separation_violated
separation_violated(p1, p2) ==
    IF Abs(p1.altitude - p2.altitude) >= FT(VERTICAL_SEPARATION_FT)
    THEN FALSE
    ELSE NormBelow(p1.x - p2.x, p1.y - p2.y, NM(min_separation))

\* AIATCEnv.position_violates_separation
position_violates_separation(spawned, new_plane) ==
    \E k \in 1 .. Len(spawned) : separation_violated(spawned[k], new_plane)

\* AIATCEnv.reset: the aircraft spawned for index i (plane_id i - 1) from its draw
ResetPlane(stage, i, draw, min_speed) ==
    LET plane ==
          IF stage = 0 THEN
              spawn_on_final(i - 1, 6 + INITIAL_SPACING_NM * (i - 1),
                             2000 + 1000 * (i - 1), 0, min_speed)
          ELSE IF stage = 1 THEN
              spawn_on_final(i - 1, draw.d, draw.d * 400, draw.intercept, min_speed)
          ELSE
              Airplane(i - 1,
                       airport_x + RoundDiv(Cos1000(draw.angle) * NM(draw.radius), 1000),
                       airport_y + RoundDiv(Sin1000(draw.angle) * NM(draw.radius), 1000),
                       draw.angle + 180, initial_speed, min_speed, max_speed,
                       max_turn_rate, FT(draw.alt), FALSE)
    IN  [plane EXCEPT
            !.target_altitude = FT(0),
            !.prev_dist_nm = Norm(plane.x - airport_x, plane.y - airport_y)]

\* the draws reset() may consume at a stage
ResetDraws(stage) ==
    IF stage = 0 THEN {NoDraw}
    ELSE IF stage = 1 THEN Stage1Draws
    ELSE Stage2Draws

\* AIATCEnv._get_obs: the slot of aircraft index i
ObsSlot(ps, i) ==
    IF i <= Len(ps)
    THEN IF ps[i].landed THEN <<0, 0, 0, 0, 1>>
         ELSE <<ps[i].x - airport_x, ps[i].y - airport_y, ps[i].speed, ps[i].heading, 0>>
    ELSE <<0, 0, 0, 0, 1>>

\* AIATCEnv._get_obs: the flat observation vector
get_obs(ps, max_planes) ==
    [k \in 1 .. 5 * max_planes |-> ObsSlot(ps, ((k - 1) \div 5) + 1)[((k - 1) % 5) + 1]]

\* what a call that is not step() leaves in ret
NoStep(op) ==
    [ op |-> op, raised |-> FALSE, actions |-> << >>,
      terminated |-> FALSE, truncated |-> FALSE,
      instruction_count |-> 0, idle |-> 0, landings |-> {},
      collisions |-> 0, active_planes |-> 0, discards |-> {},
      all_landed |-> FALSE,
      reward |-> 0, pilot_rewards |-> << >>, instruction_term |-> 0,
      silence_term |-> 0, terms |-> {}, obs |-> << >> ]

\* what reset() leaves in ret: it returns the observation
ResetReturn(ps, max_planes) == [NoStep("reset") EXCEPT !.obs = get_obs(ps, max_planes)]

\* the ledger of a fresh episode of n aircraft
NewEpisode(n) ==
    [ done |-> FALSE, collisions |-> 0, landing_rewards |-> [i \in 1 .. n |-> 0] ]

\* AIATCEnv.__init__
Init ==
    /\ cfg \in [ max_planes : PlaneCounts, dt : DtChoices,
                 max_episode_steps : EpisodeStepChoices,
                 min_speed : MinSpeedChoices ]
    /\ curriculum_stage = 0
    /\ sim_time = 0
    /\ step_count = 0
    /\ planes = << >>
    /\ ret = NoStep("init")
    /\ episode = NewEpisode(0)
    /\ CollaboratorsInit

\* AIATCEnv.set_curriculum_stage
SetCurriculumStage ==
    \E stage \in StageChoices :
        /\ stage # curriculum_stage
        /\ curriculum_stage' = stage
        /\ ret' = NoStep("set_curriculum_stage")
        /\ UNCHANGED <<cfg, sim_time, step_count, planes, episode, collaborators>>

\* AIATCEnv.reset: at stage 1 the retry loop keeps drawing until the new
\* aircraft violates separation with none of those already spawned
Reset ==
    \E draws \in [1 .. cfg.max_planes -> ResetDraws(curriculum_stage)] :
    \E spawned \in {[i \in 1 .. cfg.max_planes |->
                        ResetPlane(curriculum_stage, i, draws[i], cfg.min_speed)]} :
        /\ curriculum_stage = 1 =>
              \A i \in 1 .. cfg.max_planes :
                  ~position_violates_separation(SubSeq(spawned, 1, i - 1), spawned[i])
        /\ planes' = spawned
        /\ sim_time' = 0
        /\ step_count' = 0
        /\ ret' = ResetReturn(spawned, cfg.max_planes)
        /\ episode' = NewEpisode(cfg.max_planes)
        /\ UNCHANGED <<cfg, curriculum_stage, collaborators>>

----------------------------------------------------------------------------
(* AIATCEnv.step *)

\* the command vectors fed to step() for a session of n aircraft: every vector
\* of the right length, one vector that is a command short and one that is a
\* command long
ActionVectors(n) ==
    [1 .. n -> Commands]
      \cup (IF n > 0 THEN {[i \in 1 .. n - 1 |-> SlowDescend]} ELSE {})
      \cup {[i \in 1 .. n + 1 |-> SlowDescend]}

\* every command taken, whatever the time since the last clearance
ClearanceAccepted_always(p, t) == TRUE

\* step(), "Apply actions": whether the command of an aircraft is taken at
\* sim_time t (otherwise it is replaced by the maintain command)
ClearanceAccepted(p, t) == ~(t - p.last_clearance_time < CLEARANCE_INTERVAL_S)

\* step(), "Apply actions": the body of the loop for one non-landed aircraft
ApplyAction(p, a, t) ==
    LET accepted == ClearanceAccepted(p, t)
        turn_norm == IF accepted THEN a[1] ELSE 0
        accel_norm == IF accepted THEN a[2] ELSE 0
        vs_norm == IF accepted THEN a[3] ELSE 0
        q == IF accepted THEN [p EXCEPT !.last_clearance_time = t] ELSE p
    IN  apply_atc_clearance(q, turn_norm * max_turn_rate, accel_norm * MAX_ACCEL,
                            vs_norm * constants_MAX_VERT_SPEED)

\* step(), "Apply actions": what apply_atc_clearance returns for one aircraft
ApplyActionCount(p, a, t) ==
    LET accepted == ClearanceAccepted(p, t)
        turn_norm == IF accepted THEN a[1] ELSE 0
        accel_norm == IF accepted THEN a[2] ELSE 0
        vs_norm == IF accepted THEN a[3] ELSE 0
    IN  apply_atc_clearance_count(p, turn_norm * max_turn_rate, accel_norm * MAX_ACCEL,
                                  vs_norm * constants_MAX_VERT_SPEED)

\* the sum of f[1] .. f[n]
RECURSIVE SumTo(_, _)
SumTo(f, n) == IF n = 0 THEN 0 ELSE f[n] + SumTo(f, n - 1)

\* step(), "Apply actions": actions[i] raises IndexError at the first
\* non-landed aircraft that has no command; 0 when every one has a command
FirstMissing(ps, actions) ==
    LET missing == {i \in 1 .. Len(ps) : ~ps[i].landed /\ i > Len(actions)}
    IN  IF missing = {} THEN 0
        ELSE CHOOSE i \in missing : \A j \in missing : i <= j

\* step(), "Apply actions": the aircraft after the loop (up to the aircraft
\* before `stop` when actions[stop] raised)
AppliedPlanes(ps, actions, t, stop) ==
    [i \in 1 .. Len(ps) |->
        IF ps[i].landed \/ (stop # 0 /\ i >= stop) THEN ps[i]
        ELSE ApplyAction(ps[i], actions[i], t)]

\* step(), "Physics update": plane.step(dt)
MovedPlanes(ps, dt) == [i \in 1 .. Len(ps) |-> Airplane_step(ps[i], dt)]

\* step(), "Physics update": what compute_pilot_reward returns for each aircraft
PilotRewards(ps, stage) == [i \in 1 .. Len(ps) |-> compute_pilot_reward(ps[i], stage)]

\* step(), "Physics update": the aircraft after compute_pilot_reward
RewardedPlanes(ps, stage) ==
    [i \in 1 .. Len(ps) |-> compute_pilot_reward_plane(ps[i], stage)]

\* step(), "Landing checks": the aircraft for which check_landing returns True
LandedThisStep(ps) ==
    {i \in 1 .. Len(ps) : check_landing(ps[i], airport_x, airport_y, landing_radius)}

\* step(), "Landing checks": the aircraft after the loop
CheckedPlanes(ps) ==
    [i \in 1 .. Len(ps) |-> check_landing_plane(ps[i], airport_x, airport_y, landing_radius)]

\* the pairs in violation when landed aircraft are not skipped
ViolatingPairs_with_landed(ps) ==
    {pr \in (1 .. Len(ps)) \X (1 .. Len(ps)) :
        /\ pr[1] < pr[2]
        /\ separation_violated(ps[pr[1]], ps[pr[2]])}

\* step(), "Separation penalty": the pairs for which collision_penalty is subtracted
ViolatingPairs(ps) ==
    {pr \in (1 .. Len(ps)) \X (1 .. Len(ps)) :
        /\ pr[1] < pr[2]
        /\ ~(ps[pr[1]].landed \/ ps[pr[2]].landed)
        /\ separation_violated(ps[pr[1]], ps[pr[2]])}

\* np.linalg.norm([dx, dy]) > r NM for a large r: compared on offsets rounded
\* to 1/120 NM, whose squares fit 32-bit integers
NormAboveNM(dx, dy, r) == ~NormAtMost(RoundDiv(dx, 30), RoundDiv(dy, 30), 120 * r)

\* step() without its distance-discard check
Discarded_none(ps) == {}

\* step(), "Distance discard": the aircraft for which the discard penalty is subtracted
Discarded(ps) ==
    {i \in 1 .. Len(ps) :
        /\ ~ps[i].landed
        /\ NormAboveNM(ps[i].x - airport_x, ps[i].y - airport_y, max_distance)}

\* step(), "Termination", with any() in the place of all()
all_planes_landed_any(ps) == \E i \in 1 .. Len(ps) : ps[i].landed

\* step(), "Termination": all(p.landed for p in self.planes), the condition
\* under which all_landed_bonus is added and terminated is set
all_planes_landed(ps) == \A i \in 1 .. Len(ps) : ps[i].landed

\* truncation that looks at the step count only
step_truncated_count_only(count, t, max_episode_steps) == count >= max_episode_steps

\* step(), "Termination": whether the call returns truncated
step_truncated(count, t, max_episode_steps) ==
    count >= max_episode_steps \/ t >= MAX_SIM_SECONDS

\* step(): what a completed call returns
StepResult(before, moved, pilot_rewards, after, actions, t, count) ==
    LET n == Len(before)
        idle == Cardinality({i \in 1 .. n : before[i].landed})
        instruction_count ==
            SumTo([i \in 1 .. n |-> IF before[i].landed THEN 0
                                    ELSE ApplyActionCount(before[i], actions[i], t)], n)
        landings == LandedThisStep(moved)
        collisions == Cardinality(ViolatingPairs(after))
        active_planes == Cardinality({i \in 1 .. n : ~after[i].landed})
        instruction_term == -(instruction_count * instruction_cost)
        silence_term == (active_planes - instruction_count) * silence_bonus
        discards == Discarded(after)
        all_landed == all_planes_landed(after)
    IN  [ op |-> "step", raised |-> FALSE, actions |-> actions,
          terminated |-> collisions > 0 \/ discards # {} \/ all_landed,
          truncated |-> step_truncated(count, t, cfg.max_episode_steps),
          instruction_count |-> instruction_count,
          idle |-> idle,
          landings |-> landings,
          collisions |-> collisions,
          active_planes |-> active_planes,
          discards |-> discards,
          all_landed |-> all_landed,
          reward |-> RW(idle_reward) * idle
                       + SumTo(pilot_rewards, n)
                       + RW(landing_reward) * Cardinality(landings)
                       - RW(collision_penalty) * collisions
                       + instruction_term
                       + silence_term
                       - RW(discard_penalty) * Cardinality(discards)
                       + (IF all_landed THEN RW(all_landed_bonus) ELSE 0),
          pilot_rewards |-> pilot_rewards,
          instruction_term |-> instruction_term,
          silence_term |-> silence_term,
          terms |-> IncludedTerms(curriculum_stage),
          obs |-> get_obs(after, cfg.max_planes) ]

\* step(): what is known of a call that raised IndexError
StepRaised(actions) ==
    [NoStep("step") EXCEPT !.raised = TRUE, !.actions = actions]

\* the ledger after a step() call returned r
Ledger(ep, r) ==
    [ done |-> ep.done \/ r.terminated \/ r.truncated,
      collisions |-> ep.collisions + r.collisions,
      landing_rewards |-> [i \in DOMAIN ep.landing_rewards |->
                              ep.landing_rewards[i] + (IF i \in r.landings THEN 1 ELSE 0)] ]

\* AIATCEnv.step, called with one of the command vectors `vectors` while fewer
\* than `bound` calls have been made in the episode
StepWith(vectors, bound) ==
    /\ step_count < bound
    /\ \E actions \in vectors :
        LET t == sim_time + cfg.dt
            stop == FirstMissing(planes, actions)
        IN  \E applied \in {AppliedPlanes(planes, actions, t, stop)} :
            \E moved \in {MovedPlanes(applied, cfg.dt)} :
            \E pilot_rewards \in {PilotRewards(moved, curriculum_stage)} :
            \E after \in {CheckedPlanes(RewardedPlanes(moved, curriculum_stage))} :
                /\ step_count' = step_count + 1
                /\ sim_time' = t
                /\ IF stop # 0
                   THEN /\ planes' = applied
                        /\ ret' = StepRaised(actions)
                        /\ episode' = episode
                   ELSE /\ planes' = after
                        /\ ret' = StepResult(planes, moved, pilot_rewards, after,
                                             actions, t, step_count + 1)
                        /\ episode' = Ledger(episode, ret')
                /\ UNCHANGED <<cfg, curriculum_stage, collaborators>>

\* AIATCEnv.step
Step == StepWith(ActionVectors(Len(planes)), MaxSteps)

Next == SetCurriculumStage \/ Reset \/ Step

Spec == Init /\ [][Next]_vars

----------------------------------------------------------------------------
(* Scenario A: a session with the attributes AIATCEnv.__init__ sets, holding a
   single aircraft spawned 10 NM out on the localizer at 2000 ft, stepped in
   1 s ticks *)

\* step() calls explored in scenario A
MaxStepsA == 185

\* the commands of scenario A: maintain, or slow down and descend
ScenarioCommands == {Maintain, SlowDescend}

InitA ==
    /\ cfg = [ max_planes |-> 1, dt |-> default_dt,
               max_episode_steps |-> default_max_episode_steps,
               min_speed |-> env_min_speed ]
    /\ curriculum_stage = 0
    /\ sim_time = 0
    /\ step_count = 0
    /\ planes = << spawn_on_final(0, 10, 2000, 0, env_min_speed) >>
    /\ ret = ResetReturn(planes, 1)
    /\ episode = NewEpisode(1)
    /\ CollaboratorsInit

\* AIATCEnv.step in scenario A
StepA == StepWith([1 .. Len(planes) -> ScenarioCommands], MaxStepsA)

NextA == StepA

SpecA == InitA /\ [][NextA]_vars

----------------------------------------------------------------------------
(* Episode caps: single-aircraft sessions after reset() at stage 0, stepped
   up to and past their caps: one steps 20 minutes per tick with the default
   max_episode_steps and meets MAX_SIM_SECONDS on its third tick, the other
   steps 60 s per tick with max_episode_steps = 2 *)

\* step() calls explored per session of the caps specification
MaxStepsCaps == 4

\* dt of the session that runs into MAX_SIM_SECONDS
caps_dt == 1200

CapsConfigs ==
    { [ max_planes |-> 1, dt |-> caps_dt,
        max_episode_steps |-> default_max_episode_steps, min_speed |-> env_min_speed ],
      [ max_planes |-> 1, dt |-> 60,
        max_episode_steps |-> 2, min_speed |-> env_min_speed ] }

InitCaps ==
    /\ cfg \in CapsConfigs
    /\ curriculum_stage = 0
    /\ sim_time = 0
    /\ step_count = 0
    /\ planes = << ResetPlane(0, 1, NoDraw, env_min_speed) >>
    /\ ret = ResetReturn(planes, 1)
    /\ episode = NewEpisode(1)
    /\ CollaboratorsInit

\* AIATCEnv.step in the caps specification
StepCaps == StepWith([1 .. Len(planes) -> Commands], MaxStepsCaps)

NextCaps == StepCaps

SpecCaps == InitCaps /\ [][NextCaps]_vars

----------------------------------------------------------------------------
(* One Airplane on its own: built by Airplane.__init__ and driven through its
   methods directly, the way the tests drive their arrival_plane fixture.
   Here step_count counts the method calls made and curriculum_stage holds the
   stage argument of the last compute_pilot_reward call. *)

\* method calls explored per aircraft
MaxCalls == 2

\* constructor arguments: x offset from the airport (position units),
\* altitude (ft), speed (kt), each on and just past a landing threshold
AirplaneOffsets == {NM(landing_radius), NM(landing_radius) + 1}

AirplaneAltitudes == {1000, 1001, 1500, 1501}

AirplaneSpeeds == {150, 151, 160, 161}

\* max_turn_rate argument (deg/s): wide enough for turn rates past both
\* landing thresholds
AirplaneTurnLimits == {6}

\* arguments <<turn_rate_cmd, accel_cmd, vert_speed_cmd>> of apply_atc_clearance
ClearanceCmds ==
    { <<0, 0, 0>>, <<3, 0, 700>>, <<4, 0, -700>>, <<3, 0, -701>>,
      <<5, 0, -800>>, <<6, 0, 800>>, <<-5, 0, 801>> }

\* curriculum_stage arguments of compute_pilot_reward
RewardStages == -1 .. 6

InitAirplane ==
    /\ cfg = [ max_planes |-> 1, dt |-> default_dt,
               max_episode_steps |-> default_max_episode_steps, min_speed |-> 120 ]
    /\ curriculum_stage = 0
    /\ sim_time = 0
    /\ step_count = 0
    /\ \E x \in AirplaneOffsets, alt \in AirplaneAltitudes, speed \in AirplaneSpeeds,
          limit \in AirplaneTurnLimits, is_vfr \in BOOLEAN :
           planes = << Airplane(1, airport_x + x, airport_y, 180, speed, 120, 250,
                                limit, FT(alt), is_vfr) >>
    /\ ret = NoStep("Airplane")
    /\ episode = NewEpisode(1)
    /\ CollaboratorsInit

\* a call of Airplane.apply_atc_clearance
ApplyAtcClearanceCall ==
    /\ step_count < MaxCalls
    /\ \E cmd \in ClearanceCmds :
          /\ planes' = << apply_atc_clearance(planes[1], cmd[1], cmd[2], cmd[3]) >>
          /\ ret' = [NoStep("apply_atc_clearance") EXCEPT
                        !.instruction_count =
                            apply_atc_clearance_count(planes[1], cmd[1], cmd[2], cmd[3])]
    /\ step_count' = step_count + 1
    /\ UNCHANGED <<cfg, curriculum_stage, sim_time, episode, collaborators>>

\* a call of Airplane.step
AirplaneStepCall ==
    /\ step_count < MaxCalls
    /\ planes' = << Airplane_step(planes[1], cfg.dt) >>
    /\ ret' = NoStep("Airplane.step")
    /\ step_count' = step_count + 1
    /\ UNCHANGED <<cfg, curriculum_stage, sim_time, episode, collaborators>>

\* a call of Airplane.check_landing
CheckLandingCall ==
    /\ step_count < MaxCalls
    /\ planes' = CheckedPlanes(planes)
    /\ ret' = [NoStep("check_landing") EXCEPT !.landings = LandedThisStep(planes)]
    /\ step_count' = step_count + 1
    /\ UNCHANGED <<cfg, curriculum_stage, sim_time, episode, collaborators>>

\* a call of Airplane.compute_pilot_reward
ComputePilotRewardCall ==
    /\ step_count < MaxCalls
    /\ \E stage \in RewardStages :
          /\ curriculum_stage' = stage
          /\ planes' = << compute_pilot_reward_plane(planes[1], stage) >>
          /\ ret' = [NoStep("compute_pilot_reward") EXCEPT
                        !.reward = compute_pilot_reward(planes[1], stage),
                        !.terms = IncludedTerms(stage)]
    /\ step_count' = step_count + 1
    /\ UNCHANGED <<cfg, sim_time, episode, collaborators>>

NextAirplane ==
    \/ ApplyAtcClearanceCall
    \/ AirplaneStepCall
    \/ CheckLandingCall
    \/ ComputePilotRewardCall

SpecAirplane == InitAirplane /\ [][NextAirplane]_vars

----------------------------------------------------------------------------
(* One RunwayConfigurationManager driven through its methods, the way
   test_runway_config.py drives it. Here step_count counts the method calls
   made, ret holds what the last call was given and returned, and episode is
   a ledger of the successful change_runway_configuration calls. *)

\* method calls explored per manager
MaxManagerCalls == 5

\* RunwayConfig arguments of add_runway: RWY 27 and RWY 09 as the tests build
\* them, and RWY 09 built out of service
RunwayConfigs ==
    { RunwayConfig("RWY 27", 270, "active"), RunwayConfig("RWY 09", 90, "active"),
      RunwayConfig("RWY 09", 90, "maintenance") }

\* runway_id arguments: the two runways and one that is never added
RunwayIds == {"RWY 27", "RWY 09", "RWY 18"}

\* arguments <<wind_speed_kts, wind_direction_deg>> of update_wind_conditions
\* (the scenarios of runway_config.py's __main__ block, at the tests' speeds)
Winds == { <<10, 270>>, <<10, 90>>, <<20, 180>> }

\* current_time arguments: the times of test_minimum_time_between_changes and
\* the first time at which min_time_between_changes_seconds has passed
CallTimes == {1000, 1050, 1300}

\* the fields of the session, which no call on a collaborator touches
session == <<cfg, curriculum_stage, sim_time, planes>>

\* a session that is constructed and never used
SessionUnused ==
    /\ cfg = [ max_planes |-> 0, dt |-> default_dt,
               max_episode_steps |-> default_max_episode_steps,
               min_speed |-> env_min_speed ]
    /\ curriculum_stage = 0
    /\ sim_time = 0
    /\ planes = << >>

\* what a call on the manager leaves in ret
ManagerReturn(op, runway_id, current_time, evaluation, success) ==
    [ op |-> op, runway_id |-> runway_id, current_time |-> current_time,
      should_change |-> evaluation.should_change,
      new_runway |-> evaluation.new_runway, reason |-> evaluation.reason,
      success |-> success ]

\* a call that returns None
ManagerNone(op, runway_id) ==
    ManagerReturn(op, runway_id, NoTime, Evaluation(FALSE, NoRunway, ""), FALSE)

\* the ledger after change_runway_configuration(_, current_time) returned success
ChangeLedger(ep, success, current_time) ==
    IF success THEN [ changed |-> TRUE, last_change |-> current_time ] ELSE ep

InitRunway ==
    /\ SessionUnused
    /\ step_count = 0
    /\ CollaboratorsInit
    /\ ret = ManagerNone("RunwayConfigurationManager", NoRunway)
    /\ episode = [ changed |-> FALSE, last_change |-> 0 ]

\* a call of add_runway
AddRunwayCall ==
    /\ step_count < MaxManagerCalls
    /\ \E rc \in RunwayConfigs :
          /\ manager' = add_runway(manager, rc)
          /\ ret' = ManagerNone("add_runway", rc.runway_id)
    /\ step_count' = step_count + 1
    /\ UNCHANGED <<session, episode, ffs, curriculum>>

\* a call of update_wind_conditions
UpdateWindCall ==
    /\ step_count < MaxManagerCalls
    /\ \E w \in Winds : manager' = update_wind_conditions(manager, w[1], w[2])
    /\ ret' = ManagerNone("update_wind_conditions", NoRunway)
    /\ step_count' = step_count + 1
    /\ UNCHANGED <<session, episode, ffs, curriculum>>

\* a call of evaluate_configuration_change
EvaluateCall ==
    /\ step_count < MaxManagerCalls
    /\ \E t \in CallTimes :
          ret' = ManagerReturn("evaluate_configuration_change", NoRunway, t,
                               evaluate_configuration_change(manager, t), FALSE)
    /\ step_count' = step_count + 1
    /\ UNCHANGED <<session, episode, manager, ffs, curriculum>>

\* a call of change_runway_configuration
ChangeRunwayCall ==
    /\ step_count < MaxManagerCalls
    /\ \E id \in RunwayIds, t \in CallTimes :
          /\ manager' = change_runway_configuration(manager, id, t)
          /\ ret' = ManagerReturn("change_runway_configuration", id, t,
                                  Evaluation(FALSE, NoRunway, ""),
                                  change_runway_configuration_success(manager, id))
          /\ episode' = ChangeLedger(episode, ret'.success, t)
    /\ step_count' = step_count + 1
    /\ UNCHANGED <<session, ffs, curriculum>>

\* a call of close_runway (reopen_at_time left at its default, None)
CloseRunwayCall ==
    /\ step_count < MaxManagerCalls
    /\ \E id \in RunwayIds :
          /\ manager' = close_runway(manager, id, NoTime)
          /\ ret' = ManagerNone("close_runway", id)
    /\ step_count' = step_count + 1
    /\ UNCHANGED <<session, episode, ffs, curriculum>>

\* a call of reopen_runway
ReopenRunwayCall ==
    /\ step_count < MaxManagerCalls
    /\ \E id \in RunwayIds :
          /\ manager' = reopen_runway(manager, id)
          /\ ret' = ManagerNone("reopen_runway", id)
    /\ step_count' = step_count + 1
    /\ UNCHANGED <<session, episode, ffs, curriculum>>

NextRunway ==
    \/ AddRunwayCall
    \/ UpdateWindCall
    \/ EvaluateCall
    \/ ChangeRunwayCall
    \/ CloseRunwayCall
    \/ ReopenRunwayCall

SpecRunway == InitRunway /\ [][NextRunway]_vars

----------------------------------------------------------------------------
(* One VFRFlightFollowingService driven through its methods, the way
   test_vfr_support.py drives it. Here ret holds the last call and what it
   returned, and episode is a ledger of the plane ids whose request succeeded
   and of those for which terminate was called after that. *)

\* plane_id arguments
FollowingPlaneIds == 1 .. 3

\* aircraft_type arguments (VFRFlightType members)
AircraftTypes == {"general_aviation", "business_jet"}

\* what a call on the service leaves in ret
FollowingReturn(op, plane_id, result) ==
    [ op |-> op, plane_id |-> plane_id, result |-> result ]

InitFollowing ==
    /\ SessionUnused
    /\ step_count = 0
    /\ CollaboratorsInit
    /\ ret = FollowingReturn("VFRFlightFollowingService", 0, FALSE)
    /\ episode = [ requested |-> {}, terminated |-> {} ]

\* a call of request_flight_following
RequestFlightFollowingCall ==
    \E p \in FollowingPlaneIds, aircraft_type \in AircraftTypes :
        /\ ffs' = request_flight_following(ffs, p, aircraft_type)
        /\ ret' = FollowingReturn("request_flight_following", p,
                                  request_flight_following_result(ffs, p))
        /\ episode' = IF ret'.result
                      THEN [episode EXCEPT !.requested = @ \cup {p}]
                      ELSE episode
        /\ UNCHANGED <<session, step_count, manager, curriculum>>

\* a call of terminate_flight_following
TerminateFlightFollowingCall ==
    \E p \in FollowingPlaneIds :
        /\ ffs' = terminate_flight_following(ffs, p)
        /\ ret' = FollowingReturn("terminate_flight_following", p,
                                  terminate_flight_following_result(ffs, p))
        /\ episode' = IF p \in episode.requested
                      THEN [episode EXCEPT !.terminated = @ \cup {p}]
                      ELSE episode
        /\ UNCHANGED <<session, step_count, manager, curriculum>>

\* a call of is_receiving_flight_following
IsReceivingFlightFollowingCall ==
    \E p \in FollowingPlaneIds :
        /\ ret' = FollowingReturn("is_receiving_flight_following", p,
                                  is_receiving_flight_following(ffs, p))
        /\ UNCHANGED <<session, step_count, episode, collaborators>>

NextFollowing ==
    \/ RequestFlightFollowingCall
    \/ TerminateFlightFollowingCall
    \/ IsReceivingFlightFollowingCall

SpecFollowing == InitFollowing /\ [][NextFollowing]_vars

----------------------------------------------------------------------------
(* One AdaptiveCurriculum with its default stages, fed episode rewards and
   asked to advance, the way train_with_adaptive_curriculum and
   test_curriculum.py use it. Here ret holds the last call and what it
   returned. *)

\* episodes fed to a stage beyond the number should_advance_stage asks for
ExtraEpisodes == 0

\* episode_reward arguments: below and above the threshold of every stage
\* (target_reward * 0.005 is 2.5 at stage 0 and 7.5 at stage 5); within one
\* stage every episode brings the same reward
EpisodeRewards == {0, 8}

\* what a call on the curriculum leaves in ret
CurriculumReturn(op, result) == [ op |-> op, result |-> result ]

InitCurriculum ==
    /\ SessionUnused
    /\ step_count = 0
    /\ CollaboratorsInit
    /\ ret = CurriculumReturn("AdaptiveCurriculum", FALSE)
    /\ episode = NewEpisode(0)

\* a call of update_stage_metrics
UpdateStageMetricsCall ==
    /\ ~current_stage_raises(curriculum)
    /\ \E episode_reward \in EpisodeRewards :
        LET stage == current_stage(curriculum)
            fed == IF stage.stage \in DOMAIN curriculum.metrics
                   THEN curriculum.metrics[stage.stage].rewards_history
                   ELSE << >>
        IN  /\ Len(fed) < min_episodes(stage) + ExtraEpisodes
            /\ fed # << >> => episode_reward = fed[Len(fed)]
            /\ curriculum' = update_stage_metrics(curriculum, episode_reward)
    /\ ret' = CurriculumReturn("update_stage_metrics", FALSE)
    /\ UNCHANGED <<session, step_count, episode, manager, ffs>>

\* a call of advance_stage
AdvanceStageCall ==
    /\ ~current_stage_raises(curriculum)
    /\ curriculum' = advance_stage(curriculum)
    /\ ret' = CurriculumReturn("advance_stage", should_advance_stage(curriculum))
    /\ UNCHANGED <<session, step_count, episode, manager, ffs>>

NextCurriculum == UpdateStageMetricsCall \/ AdvanceStageCall

SpecCurriculum == InitCurriculum /\ [][NextCurriculum]_vars

----------------------------------------------------------------------------
(* reset() at curriculum stage 1 with its retry loop unrolled: one step per
   pass through the body of `while not good_airplane_location`. planes holds
   the aircraft appended so far; ret.op is "reset_loop" while reset() is
   running and "reset" once it has returned. *)

\* max_planes arguments: the default MAX_PLANE_COUNT and two larger fleets
SpawnPlaneCounts == {3, 4, 5}

\* np_random draws of the loop body: the distance, from uniform(6.0, 18.0) in
\* whole NM (the upper end is not drawn), and the intercept, -20 or 20 degrees
SpawnDraws == {[d |-> d, intercept |-> i, angle |-> 0, radius |-> 0, alt |-> 0] :
                  d \in 6 .. 17, i \in {-20, 20}}

\* reset() entered at stage 1: sim_time, step_count and planes are cleared
InitSpawn ==
    /\ cfg \in [ max_planes : SpawnPlaneCounts, dt : {default_dt},
                 max_episode_steps : {default_max_episode_steps},
                 min_speed : {env_min_speed} ]
    /\ curriculum_stage = 1
    /\ sim_time = 0
    /\ step_count = 0
    /\ planes = << >>
    /\ ret = NoStep("reset_loop")
    /\ episode = NewEpisode(0)
    /\ CollaboratorsInit

\* one pass through the loop body for the next aircraft: draw, spawn, test;
\* a good location ends the loop and the aircraft is appended
SpawnRetry ==
    /\ ret.op = "reset_loop"
    /\ Len(planes) < cfg.max_planes
    /\ \E draw \in SpawnDraws :
         \E plane \in {ResetPlane(curriculum_stage, Len(planes) + 1, draw, cfg.min_speed)} :
            planes' = IF position_violates_separation(planes, plane) THEN planes
                      ELSE Append(planes, plane)
    /\ UNCHANGED <<cfg, curriculum_stage, sim_time, step_count, ret, episode, collaborators>>

\* reset() returns the observation once the for loop has run max_planes times
SpawnReturn ==
    /\ ret.op = "reset_loop"
    /\ Len(planes) = cfg.max_planes
    /\ ret' = ResetReturn(planes, cfg.max_planes)
    /\ episode' = NewEpisode(cfg.max_planes)
    /\ UNCHANGED <<cfg, curriculum_stage, sim_time, step_count, planes, collaborators>>

NextSpawn == SpawnRetry \/ SpawnReturn

\* the draws are fair: a pass that can find a good location or return is
\* eventually made
SpecSpawn == InitSpawn /\ [][NextSpawn]_vars /\ WF_vars(NextSpawn)

----------------------------------------------------------------------------
(* Properties *)

\* the last call was a step() that returned (did not raise)
Stepped == ret.op = "step" /\ ~ret.raised

\* C1: once a step() call of a session holding aircraft has returned
\* terminated or truncated, a later step() call before the next reset()
\* produces no tick: step_count, sim_time and the aircraft stay as they were.
C1_TerminalIsSticky ==
    [][(episode.done /\ Len(planes) > 0 /\ ret'.op = "step")
          => (step_count' = step_count /\ sim_time' = sim_time /\ planes' = planes)]_vars

\* C2: between one reset() and the next, collision_penalty is subtracted
\* exactly once, on the first tick with a separation violation: however many
\* pairs violate and however long the violation lasts, the episode never
\* collects a second collision penalty.
C2_CollisionPenaltyOnce == episode.collisions <= 1

\* C4: landing is one-shot per aircraft: in every state an aircraft is landed
\* exactly if check_landing returned True for it (and landing_reward was added
\* for it) once in the episode, and never more than once; so the flag never
\* falls back and the reward is never added a second time.
C4_LandingOneShot ==
    \A i \in 1 .. Len(planes) :
        /\ episode.landing_rewards[i] <= 1
        /\ planes[i].landed <=> episode.landing_rewards[i] = 1

\* C4 witness: an aircraft landed on an earlier tick and step() has run again
\* since, with the landing criteria still met by the frozen aircraft.
C4_Witness ==
    \E i \in 1 .. Len(planes) :
        /\ Stepped
        /\ planes[i].landed
        /\ i \notin ret.landings
        /\ LandingCriteria(planes[i], airport_x, airport_y, landing_radius)

\* C5: a step() call leaves position, heading, speed and altitude of every
\* aircraft that was already landed unchanged, whatever the commands.
C5_LandedIsFrozen ==
    [][ret'.op = "step" =>
          \A i \in 1 .. Len(planes) :
              planes[i].landed =>
                  /\ planes'[i].x = planes[i].x
                  /\ planes'[i].y = planes[i].y
                  /\ planes'[i].heading = planes[i].heading
                  /\ planes'[i].speed = planes[i].speed
                  /\ planes'[i].altitude = planes[i].altitude]_vars

\* C5 witness: step() was called with a command other than maintain for an
\* aircraft that had landed before the call.
C5_Witness ==
    \E i \in 1 .. Len(planes) :
        /\ Stepped
        /\ planes[i].landed
        /\ i \notin ret.landings
        /\ i <= Len(ret.actions)
        /\ ret.actions[i] # Maintain

\* C3 (scenario A): some command sequence lands the aircraft; so the
\* sequence that has brought it inside the landing radius, at or below the
\* altitude threshold, with vertical speed and turn rate inside their
\* thresholds and slowed to the lowest speed the session lets it fly, has
\* landed it.
C3_ScenarioALands ==
    \A i \in 1 .. Len(planes) :
        ( /\ Stepped
          /\ NormAtMost(planes[i].x - airport_x, planes[i].y - airport_y, NM(landing_radius))
          /\ planes[i].altitude <= FT(1500)
          /\ Abs(planes[i].vert_speed) <= 700
          /\ Abs(planes[i].current_turn_rate) <= max_turn_rate
          /\ planes[i].speed = planes[i].min_speed )
        => planes[i].landed

\* with the attributes AIATCEnv.__init__ sets, no aircraft is ever landed:
\* step() keeps the speed at or above min_speed, which exceeds APPROACH_SPEED
EnvDefaultsNeverLand ==
    cfg.min_speed = env_min_speed => \A i \in 1 .. Len(planes) : ~planes[i].landed

\* C6: a step() call whose command vector is not as long as the aircraft
\* list (of a session whose aircraft are all live) is rejected before any
\* mutation: step_count, sim_time and every aircraft stay as they were.
C6_MismatchRejected ==
    [][( /\ ret'.op = "step"
         /\ Len(planes) > 0
         /\ \A i \in 1 .. Len(planes) : ~planes[i].landed
         /\ Len(ret'.actions) # Len(planes) )
          => (step_count' = step_count /\ sim_time' = sim_time /\ planes' = planes)]_vars

\* the aircraft that were not landed when the last step() call began
LiveBefore == {i \in 1 .. Len(planes) : ~planes[i].landed \/ i \in ret.landings}

\* the live aircraft whose command of the last step() call was taken (not
\* replaced by maintain) and asks for a change on at least one axis
Instructed ==
    {i \in LiveBefore : planes[i].last_clearance_time = sim_time /\ ret.actions[i] # Maintain}

\* C7: the instruction count of a tick is the number of command axes whose
\* change exceeds the dead-band, so each live aircraft contributes 0 .. 3, and
\* an aircraft whose command changes nothing contributes 0.
C7_InstructionCountIsAxesChanged ==
    Stepped => ret.instruction_count \in 0 .. 3 * Cardinality(Instructed)

\* C8: every aircraft's speed lies in [min_speed, max_speed].
C8_SpeedInRange ==
    \A i \in 1 .. Len(planes) :
        planes[i].min_speed <= planes[i].speed /\ planes[i].speed <= planes[i].max_speed

\* C8 witness: a tick integrated an acceleration that would have carried the
\* speed out of the range, and the speed sits on the limit.
C8_Witness ==
    \E i \in 1 .. Len(planes) :
        /\ Stepped
        /\ ~planes[i].landed
        /\ \/ planes[i].accel > 0 /\ planes[i].speed = planes[i].max_speed
           \/ planes[i].accel < 0 /\ planes[i].speed = planes[i].min_speed

\* C9: |current_turn_rate| of every aircraft is at most its max_turn_rate.
C9_TurnRateBounded ==
    \A i \in 1 .. Len(planes) :
        Abs(planes[i].current_turn_rate) <= planes[i].max_turn_rate

\* C9 witness: a tick took a command whose turn rate, turn_norm *
\* max_turn_rate, exceeds max_turn_rate, and the aircraft turns at max_turn_rate.
C9_Witness ==
    \E i \in 1 .. Len(planes) :
        /\ Stepped
        /\ i \in Instructed
        /\ Abs(ret.actions[i][1]) * max_turn_rate > planes[i].max_turn_rate
        /\ Abs(planes[i].current_turn_rate) = planes[i].max_turn_rate

\* C10: every aircraft's altitude lies in [MIN_ALTITUDE, MAX_ALTITUDE].
C10_AltitudeInRange ==
    \A i \in 1 .. Len(planes) :
        FT(MIN_ALTITUDE) <= planes[i].altitude /\ planes[i].altitude <= FT(MAX_ALTITUDE)

\* C10 witness: a tick integrated a descent that would have carried the
\* aircraft below MIN_ALTITUDE, and the altitude sits on MIN_ALTITUDE.
C10_Witness ==
    \E i \in 1 .. Len(planes) :
        /\ Stepped
        /\ ~planes[i].landed
        /\ planes[i].vert_speed < 0
        /\ planes[i].altitude = FT(MIN_ALTITUDE)

\* C11: between two consecutive ticks of an aircraft that is not landed, the
\* change of its vertical speed divided by dt is at most MAX_VERT_ACCEL,
\* whatever vertical-speed command the tick carried (read with dt in seconds,
\* the widest reading of the limit's unit).
C11_VerticalAccelLimited ==
    [][ret'.op = "step" =>
          \A i \in 1 .. Len(planes) :
              ~planes[i].landed =>
                  Abs(planes'[i].vert_speed - planes[i].vert_speed)
                      <= MAX_VERT_ACCEL * cfg.dt]_vars

\* C13: for every pair of aircraft, separation_violated(a, b) is true exactly
\* if their horizontal distance is below min_separation (3 NM) and their
\* altitudes differ by less than 2000 ft, and it gives the same answer for
\* (a, b) and (b, a).
C13_SeparationIffAndSymmetric ==
    \A i, j \in 1 .. Len(planes) :
        LET dx == planes[i].x - planes[j].x
            dy == planes[i].y - planes[j].y
            horizontal == /\ Abs(dx) < NM(3)
                          /\ Abs(dy) < NM(3)
                          /\ dx * dx + dy * dy < NM(3) * NM(3)
            vertical == /\ planes[i].altitude - planes[j].altitude < FT(2000)
                        /\ planes[j].altitude - planes[i].altitude < FT(2000)
        IN  /\ separation_violated(planes[i], planes[j]) <=> (horizontal /\ vertical)
            /\ separation_violated(planes[i], planes[j])
                  <=> separation_violated(planes[j], planes[i])

\* C13 witness: after a tick, two live aircraft are less than 3 NM apart
\* horizontally and 2000 ft or more apart vertically, and the tick counted no
\* violation.
C13_Witness ==
    \E i, j \in 1 .. Len(planes) :
        /\ Stepped
        /\ i < j
        /\ ~planes[i].landed /\ ~planes[j].landed
        /\ NormBelow(planes[i].x - planes[j].x, planes[i].y - planes[j].y, NM(min_separation))
        /\ Abs(planes[i].altitude - planes[j].altitude) >= FT(VERTICAL_SEPARATION_FT)
        /\ ret.collisions = 0

\* C14: a tick adds all_landed_bonus, and returns terminated for that reason,
\* exactly if every aircraft of the session is landed once the tick's landing
\* detection has run.
C14_AllLandedBonusIff ==
    Stepped =>
        /\ ret.all_landed <=> (\A i \in 1 .. Len(planes) : planes[i].landed)
        /\ ret.all_landed => ret.terminated

\* C14 witness: the tick on which the last live aircraft of a session landed
\* added the bonus.
C14_Witness ==
    /\ Stepped
    /\ Len(planes) > 0
    /\ ret.landings # {}
    /\ ret.all_landed
    /\ ret.terminated

\* C15: step() returns truncated on every tick whose step count exceeds
\* max_episode_steps or whose sim_time exceeds MAX_SIM_SECONDS, and on no tick
\* where both are still below their caps.
C15_TruncatedAtCaps ==
    Stepped =>
        /\ (step_count > cfg.max_episode_steps \/ sim_time > MAX_SIM_SECONDS)
              => ret.truncated
        /\ (step_count < cfg.max_episode_steps /\ sim_time < MAX_SIM_SECONDS)
              => ~ret.truncated

\* C15 witness: a tick past MAX_SIM_SECONDS, of a session far below its
\* max_episode_steps, came back truncated.
C15_Witness ==
    /\ Stepped
    /\ sim_time > MAX_SIM_SECONDS
    /\ step_count < cfg.max_episode_steps
    /\ ret.truncated

\* C17: on every tick the silence-bonus term is silence_bonus times the number
\* of aircraft that are live and were not issued an instruction on the tick, so
\* it is never negative; the instruction-cost term is instruction_cost times
\* the number of instructions issued on the tick.
C17_SilenceAndInstructionTerms ==
    Stepped =>
        /\ ret.silence_term =
              silence_bonus * Cardinality({i \in 1 .. Len(planes) :
                                              ~planes[i].landed /\ i \notin Instructed})
        /\ ret.silence_term >= 0
        /\ ret.instruction_term = -(instruction_cost * ret.instruction_count)

\* C18: the reward step() returns (for a session holding aircraft) lies within
\* the clip range [-10, 10], for every state, command and curriculum stage.
C18_StepRewardWithinClip ==
    (Stepped /\ Len(planes) > 0) => (-RW(10) <= ret.reward /\ ret.reward <= RW(10))

\* C19: the observation has max_planes x 5 entries; the slot of a present
\* aircraft that is not landed holds [dx, dy, speed, heading, 0] and every slot
\* with no aircraft is all zeros.
C19_ObservationZeroPadded ==
    (Stepped \/ ret.op = "reset") =>
        /\ Len(ret.obs) = 5 * cfg.max_planes
        /\ \A i \in 1 .. cfg.max_planes :
              LET slot == SubSeq(ret.obs, 5 * (i - 1) + 1, 5 * i)
              IN  /\ (i <= Len(planes) /\ ~planes[i].landed) =>
                        slot = << planes[i].x - airport_x, planes[i].y - airport_y,
                                  planes[i].speed, planes[i].heading, 0 >>
                  /\ i > Len(planes) => slot = <<0, 0, 0, 0, 0>>

C16_StageGatingMonotone ==
    ret.op = "compute_pilot_reward" =>
        \A s \in RewardStages :
            s < curriculum_stage => IncludedTerms(s) \subseteq ret.terms

\* C16 as amended: every term gated by a lower bound on the stage (heading,
\* terminal distance, speed, vertical speed, turn rate, landing) that is
\* included at a stage s is included at every stage above s; the
\* too-high-near-runway penalty is included exactly at the stages below 2.
C16_LowerBoundGatingMonotone ==
    ret.op = "compute_pilot_reward" =>
        /\ \A s \in RewardStages :
              s < curriculum_stage =>
                  (IncludedTerms(s) \ {"too_high_near_runway"}) \subseteq ret.terms
        /\ "too_high_near_runway" \in ret.terms <=> curriculum_stage < 2

\* C16 witness: a call at the top stage evaluated the terms of every lower
\* stage and not the too-high-near-runway penalty.
C16_Witness ==
    /\ ret.op = "compute_pilot_reward"
    /\ curriculum_stage = 6
    /\ {"heading_30", "heading_15", "terminal_distance", "speed_error",
         "vs_error", "turn_rate", "landing"} \subseteq ret.terms
    /\ "too_high_near_runway" \notin ret.terms

\* C21: evaluate_configuration_change(t) returns should_change = False
\* whenever a change_runway_configuration call has succeeded and t minus the
\* time of the last one that did is less than min_time_between_changes_seconds,
\* whatever the wind and the states of the runways.
C21_NoChangeWithinMinTime ==
    (/\ ret.op = "evaluate_configuration_change"
     /\ episode.changed
     /\ ret.current_time - episode.last_change < min_time_between_changes_seconds)
        => ~ret.should_change

\* C21 witness: 50 s after a successful change, with a wind and runways under
\* which the evaluation past the time check recommends another change
C21_Witness ==
    /\ ret.op = "evaluate_configuration_change"
    /\ episode.changed
    /\ ret.current_time - episode.last_change = 50
    /\ ~ret.should_change
    /\ evaluate_configuration_change_untimed(manager, ret.current_time).should_change

\* C22: configuration_history is the exact ordered log of the changes of
\* active_runway: once a runway is active, a call that changes active_runway
\* from a to b appends one triple (t, a, b), with t the call's current_time
\* when it has one, and a call that leaves active_runway as it was appends
\* nothing.
C22_HistoryIsChangeLog ==
    [][LET a == manager.active_runway
           b == manager'.active_runway
       IN  IF a # NoRunway /\ a # b
           THEN \E t \in CallTimes \cup {NoTime} :
                   /\ ret'.current_time # NoTime => t = ret'.current_time
                   /\ manager'.configuration_history =
                          Append(manager.configuration_history, <<t, a, b>>)
           ELSE manager'.configuration_history = manager.configuration_history]_vars

\* C30: whenever active_runway is set, it names a runway of the manager for
\* which is_operational() is true.
C30_ActiveRunwayOperational ==
    manager.active_runway # NoRunway =>
        /\ get_active_runway(manager) # 0
        /\ is_operational(manager.runways[get_active_runway(manager)], NoTime)

\* C23: over any sequence of request_flight_following and
\* terminate_flight_following calls, a request for plane p returns True only
\* if p has no session yet; a request for p after one that succeeded returns
\* False and leaves the service as it was; and is_receiving_flight_following(p)
\* is true exactly from the successful request until the first terminate for p.
C23_FlightFollowingLifecycle ==
    [][/\ (ret'.op = "request_flight_following" /\ ret'.result)
              => ~HasSession(ffs, ret'.plane_id)
       /\ (ret'.op = "request_flight_following" /\ ret'.plane_id \in episode.requested)
              => (~ret'.result /\ ffs' = ffs)
       /\ \A p \in FollowingPlaneIds :
              is_receiving_flight_following(ffs', p)
                  <=> (p \in episode'.requested /\ p \notin episode'.terminated)
       /\ ret'.op = "is_receiving_flight_following"
              => (ret'.result <=> (/\ ret'.plane_id \in episode.requested
                                   /\ ret'.plane_id \notin episode.terminated))]_vars

\* C23 witness: a request for a plane whose flight following was requested
\* and then terminated has returned False, while another plane is receiving
C23_Witness ==
    /\ ret.op = "request_flight_following"
    /\ ~ret.result
    /\ ret.plane_id \in episode.terminated
    /\ ~is_receiving_flight_following(ffs, ret.plane_id)
    /\ \E p \in FollowingPlaneIds : is_receiving_flight_following(ffs, p)

\* C24: through any sequence of update_stage_metrics and advance_stage calls,
\* current_stage_idx never decreases, grows by at most one per advance_stage
\* call and not at all otherwise, and never exceeds len(stages) - 1; at the
\* last stage should_advance_stage is False.
C24_StageIndexMonotoneAndCapped ==
    [][/\ curriculum'.current_stage_idx >= curriculum.current_stage_idx
       /\ curriculum'.current_stage_idx
              <= curriculum.current_stage_idx + (IF ret'.op = "advance_stage" THEN 1 ELSE 0)
       /\ curriculum'.current_stage_idx <= Len(curriculum'.stages) - 1
       /\ curriculum'.current_stage_idx = Len(curriculum'.stages) - 1
              => ~should_advance_stage(curriculum')]_vars

\* C24 witness: advance_stage has returned False at the last stage although
\* that stage has the episodes and the mean reward that advance a stage
C24_Witness ==
    /\ ret.op = "advance_stage"
    /\ ~ret.result
    /\ curriculum.current_stage_idx = Len(curriculum.stages) - 1
    /\ should_advance_stage_unguarded(curriculum)

\* C25: within one tick the order is kept: the landing checks and the
\* separation check both read the positions and altitudes that the tick's
\* integration produced, and an aircraft that lands on the tick is in no
\* separation pair of that tick (nor is one that had landed before).
C25_ChecksAfterIntegrationInOrder ==
    [][(ret'.op = "step" /\ ~ret'.raised) =>
         \E moved \in {MovedPlanes(AppliedPlanes(planes, ret'.actions, sim_time', 0),
                                   cfg.dt)} :
           LET n == Len(planes)
               landings == {i \in 1 .. n :
                              /\ ~planes[i].landed
                              /\ LandingCriteria(moved[i], airport_x, airport_y,
                                                 landing_radius)}
               flying == {i \in 1 .. n : ~planes[i].landed /\ i \notin landings}
               pairs == {pr \in flying \X flying :
                           /\ pr[1] < pr[2]
                           /\ separation_violated(moved[pr[1]], moved[pr[2]])}
           IN  /\ ret'.landings = landings
               /\ ret'.collisions = Cardinality(pairs)
               /\ \A i \in 1 .. n :
                     /\ planes'[i].x = moved[i].x
                     /\ planes'[i].y = moved[i].y
                     /\ planes'[i].altitude = moved[i].altitude
                     /\ planes'[i].landed <=> (planes[i].landed \/ i \in landings)]_vars

\* C25 witness: an aircraft has landed on this tick within min_separation and
\* less than 2000 ft of an aircraft that is still flying, and the tick counts
\* no pair
C25_Witness ==
    /\ Stepped
    /\ ret.collisions = 0
    /\ \E i \in ret.landings, j \in 1 .. Len(planes) :
          /\ ~planes[j].landed
          /\ separation_violated(planes[i], planes[j])

\* C26: on a tick, the distance-discard check subtracts the discard penalty
\* for exactly the aircraft that are not landed and whose distance to the
\* airport after the tick's integration exceeds max_distance, and the tick
\* returns terminated when there is one; a landed aircraft and an aircraft
\* within max_distance never trigger it.
C26_DiscardBeyondMaxDistance ==
    Stepped =>
        LET n == Len(planes)
            beyond == {i \in 1 .. n :
                         NormAboveNM(planes[i].x - airport_x, planes[i].y - airport_y,
                                     max_distance)}
        IN  /\ ret.discards = {i \in beyond : ~planes[i].landed}
            /\ ret.discards # {} => ret.terminated
            /\ (ret.discards = {} /\ ret.collisions = 0 /\ ~ret.all_landed)
                   => ~ret.terminated
            /\ ret.reward = RW(idle_reward) * ret.idle
                              + SumTo(ret.pilot_rewards, n)
                              + RW(landing_reward) * Cardinality(ret.landings)
                              - RW(collision_penalty) * ret.collisions
                              + ret.instruction_term + ret.silence_term
                              + (IF ret.all_landed THEN RW(all_landed_bonus) ELSE 0)
                              - RW(discard_penalty) * Cardinality(ret.discards)

\* C26 witness: a tick has carried a flying aircraft along the localizer from
\* within max_distance of the airport to beyond it, and the tick is terminated
\* for that alone
C26_Witness ==
    /\ Stepped
    /\ ret.discards = {1}
    /\ planes[1].x = airport_x
    /\ Abs(planes[1].y - airport_y) > NM(max_distance)
    /\ Abs(planes[1].y - airport_y) - planes[1].speed * cfg.dt <= NM(max_distance)
    /\ ret.terminated
    /\ ret.collisions = 0
    /\ ~ret.all_landed

\* C27: for each flying aircraft, a tick takes the aircraft's command and
\* sets last_clearance_time to the tick's sim_time exactly when sim_time minus
\* last_clearance_time is at least CLEARANCE_INTERVAL_S, so that two accepted
\* clearances of one aircraft are at least CLEARANCE_INTERVAL_S apart; on any
\* other tick the aircraft is given the all-zero maintain command instead and
\* last_clearance_time stays.
C27_ClearanceIntervalGating ==
    [][(ret'.op = "step" /\ ~ret'.raised) =>
         \A i \in 1 .. Len(planes) :
            ~planes[i].landed =>
               LET due == sim_time' - planes[i].last_clearance_time >= CLEARANCE_INTERVAL_S
                   cmd == IF due THEN ret'.actions[i] ELSE <<0, 0, 0>>
                   commanded == apply_atc_clearance(planes[i], cmd[1] * max_turn_rate,
                                                    cmd[2] * MAX_ACCEL,
                                                    cmd[3] * constants_MAX_VERT_SPEED)
               IN  /\ planes'[i].last_clearance_time =
                          (IF due THEN sim_time' ELSE planes[i].last_clearance_time)
                   /\ planes'[i].last_clearance_time # planes[i].last_clearance_time
                          => planes'[i].last_clearance_time - planes[i].last_clearance_time
                                 >= CLEARANCE_INTERVAL_S
                   /\ planes'[i].current_turn_rate = commanded.current_turn_rate
                   /\ planes'[i].accel = commanded.accel
                   /\ planes'[i].vert_speed = commanded.vert_speed]_vars

\* C27 witness: a clearance was accepted earlier in the episode, and on this
\* tick, fewer than CLEARANCE_INTERVAL_S later, the command to slow down and
\* descend has been replaced by maintain
C27_Witness ==
    /\ Stepped
    /\ Len(planes) = 1
    /\ ~planes[1].landed
    /\ planes[1].last_clearance_time >= CLEARANCE_INTERVAL_S
    /\ sim_time - planes[1].last_clearance_time \in 1 .. CLEARANCE_INTERVAL_S - 1
    /\ ret.actions[1] = SlowDescend
    /\ planes[1].accel = 0
    /\ planes[1].vert_speed = 0

\* C28: immediately after reset(), at every curriculum stage, exactly
\* max_planes aircraft exist, none is landed, step_count and sim_time are zero,
\* and no two of the spawned aircraft are in separation violation.
C28_ResetSpawnsSeparated ==
    ret.op = "reset" =>
        /\ Len(planes) = cfg.max_planes
        /\ \A i \in 1 .. Len(planes) : ~planes[i].landed
        /\ step_count = 0
        /\ sim_time = 0
        /\ \A i, j \in 1 .. Len(planes) :
              i < j => ~separation_violated(planes[i], planes[j])

\* C29: reset() at curriculum stage 1 terminates for every configured
\* max_planes: for each aircraft the retry loop eventually draws a position
\* that does not violate separation with the aircraft already spawned, and
\* reset() returns.
C29_ResetTerminates == <>(ret.op = "reset")

====
